---- MODULE Spec2Model ----
(***************************************************************************)
(* Model of app/models.py of cultural-event-manager: the SQLModel tables   *)
(* (Admin, Student, Event, EventParticipant, Schedule, ScheduleSlot), the  *)
(* Create/Update input shapes and the field constraints they declare.      *)
(*                                                                         *)
(* A record (table row or input shape) is a function from field names to   *)
(* values.  A field that is None / NULL / not given is absent from the     *)
(* DOMAIN of the function.  Strings are TLA+ strings, so max_length and    *)
(* min_length are checked with Len as pydantic checks them.                *)
(*                                                                         *)
(* Two layers reject data:                                                 *)
(*  - pydantic validation, run when a table=False shape is constructed     *)
(*    (Field(ge=, le=, min_length=, max_length=), enum membership,         *)
(*    required fields).  Classes declared table=True are built by          *)
(*    SQLModel without running the validators.                             *)
(*  - the relational store, which enforces what the table declares as      *)
(*    DDL: NOT NULL, VARCHAR(n), the enum column type, UNIQUE, FOREIGN     *)
(*    KEY.  ge= / le= produce no DDL.                                      *)
(***************************************************************************)
EXTENDS Integers, Sequences, FiniteSets, TLC

VARIABLES admins, students, events, participants, schedules, slots, clock, last

vars == <<admins, students, events, participants, schedules, slots, clock, last>>

(* ------------------------------ bounds -------------------------------- *)
\* rows per table
MaxRows == 2

(* ------------------------------ helpers ------------------------------- *)
RECURSIVE Rep(_, _)
Rep(s, n) ==
  IF n = 0 THEN ""
  ELSE IF n = 1 THEN s
  ELSE Rep(s, n \div 2) \o Rep(s, n - (n \div 2))

Has(r, f) == f \in DOMAIN r

\* Field(max_length=n) on an optional or defaulted string field
MaxLenOK(r, f, n) == Has(r, f) => Len(r[f]) <= n

\* Field(min_length=n)
MinLenOK(r, f, n) == Has(r, f) => Len(r[f]) >= n

\* Field(ge=n)
GeOK(r, f, n) == Has(r, f) => r[f] >= n

\* Field(le=n)
LeOK(r, f, n) == Has(r, f) => r[f] <= n

\* fields without a default must be given
Required(r, fs) == fs \subseteq DOMAIN r

\* the validated shape: undeclared keys are ignored, defaults fill the gaps
Shape(in, fields, defaults) ==
  [f \in (DOMAIN in \cap fields) \cup DOMAIN defaults |->
     IF f \in DOMAIN in THEN in[f] ELSE defaults[f]]

\* the table object built from keyword data: declared columns only, defaults
\* for the rest, no validation
TableObject(data, columns, defaults) == Shape(data, columns, defaults)

\* sparse update: only the fields the validated update carries are assigned
ApplyUpdate(row, upd) ==
  [f \in DOMAIN row \cup DOMAIN upd |->
     IF f \in DOMAIN upd THEN upd[f] ELSE row[f]]

\* INSERT: the primary key is assigned by the store
Insert(table, obj) ==
  Append(table, [f \in DOMAIN obj \cup {"id"} |->
                   IF f = "id" THEN Len(table) + 1 ELSE obj[f]])

Ids(table) == 1..Len(table)

\* the verdict of the store on a row: column types first, then constraints
Commit(typesOK, constraintsOK) ==
  IF ~typesOK THEN "DataError"
  ELSE IF ~constraintsOK THEN "IntegrityError"
  ELSE "ok"

\* what the caller of the last operation gave and got back
Result(op, id, in, result) == [op |-> op, id |-> id, in |-> in, result |-> result]

(* ------------------------------- Admin -------------------------------- *)
AdminColumns ==
  {"id", "username", "password_hash", "name", "email", "is_active", "created_at"}

AdminNotNull ==
  {"username", "password_hash", "name", "email", "is_active", "created_at"}

AdminDefaults(now) == [is_active |-> TRUE, created_at |-> now]

AdminCreateFields == {"username", "password", "name", "email"}

\* mutation: username declared on AdminUpdate
AdminUpdateFieldsWithUsername == {"name", "email", "is_active", "username"}

AdminUpdateFields == {"name", "email", "is_active"}

PasswordMinLength == 6

PasswordMaxLength == 100

\* mutation: min_length missing on password
ValidAdminCreateNoMinLength(in) ==
  /\ Required(in, {"username", "password", "name", "email"})
  /\ MaxLenOK(in, "username", 50)
  /\ MaxLenOK(in, "password", PasswordMaxLength)
  /\ MaxLenOK(in, "name", 100)
  /\ MaxLenOK(in, "email", 255)

ValidAdminCreate(in) ==
  /\ Required(in, {"username", "password", "name", "email"})
  /\ MaxLenOK(in, "username", 50)
  /\ MinLenOK(in, "password", PasswordMinLength)
  /\ MaxLenOK(in, "password", PasswordMaxLength)
  /\ MaxLenOK(in, "name", 100)
  /\ MaxLenOK(in, "email", 255)

ValidAdminUpdate(in) ==
  /\ MaxLenOK(in, "name", 100)
  /\ MaxLenOK(in, "email", 255)

\* mutation: unique=True missing on email
AdminUniqueUsernameOnly(table, row, id) ==
  \A j \in Ids(table) \ {id} : table[j].username # row.username

\* the DDL of table admins, checked for a row that would take primary key id
AdminUnique(table, row, id) ==
  \A j \in Ids(table) \ {id} :
    /\ table[j].username # row.username
    /\ table[j].email # row.email

AdminTypes(row) ==
  /\ MaxLenOK(row, "username", 50)
  /\ MaxLenOK(row, "password_hash", 255)
  /\ MaxLenOK(row, "name", 100)
  /\ MaxLenOK(row, "email", 255)

AdminConstraints(table, row, id) ==
  /\ Required(row, AdminNotNull)
  /\ AdminUnique(table, row, id)

AdminDDL(table, row, id) ==
  Commit(AdminTypes(row), AdminConstraints(table, row, id))

\* the service stores a digest of the raw password, never the password
HashPassword(p) == "hash:" \o p

AdminFromCreate(shape, now) ==
  TableObject([username |-> shape.username,
               password_hash |-> HashPassword(shape.password),
               name |-> shape.name,
               email |-> shape.email],
              AdminColumns, AdminDefaults(now))

AdminCreateInputs ==
  { [username |-> "root", password |-> "abcdef", name |-> "Root", email |-> "root@x"],
    [username |-> "root", password |-> "abcdefg", name |-> "Other", email |-> "other@x"],
    [username |-> "staff", password |-> Rep("p", 100), name |-> "Staff", email |-> "root@x"],
    [username |-> "staff", password |-> "abcdef", name |-> "Staff", email |-> "staff@x"],
    [username |-> "short", password |-> "abcde", name |-> "Short", email |-> "short@x"],
    [username |-> "empty", password |-> "", name |-> "Empty", email |-> "empty@x"],
    [username |-> "long", password |-> Rep("p", 101), name |-> "Long", email |-> "long@x"],
    [username |-> Rep("u", 51), password |-> "abcdef", name |-> "U", email |-> "u@x"],
    [username |-> "nopw", name |-> "NoPw", email |-> "nopw@x"] }

AdminUpdateInputs ==
  { [name |-> "Renamed"],
    [email |-> "root@x"],
    [email |-> "staff@x", is_active |-> FALSE],
    [is_active |-> FALSE, username |-> "hacked", password_hash |-> "x", id |-> 9,
     created_at |-> 99],
    [name |-> Rep("n", 101)],
    << >> }

CreateAdmin(in) ==
  /\ UNCHANGED <<students, events, participants, schedules, slots>>
  /\ IF ~ValidAdminCreate(in)
     THEN /\ last' = Result("CreateAdmin", 0, in, "ValidationError")
          /\ UNCHANGED <<admins, clock>>
     ELSE LET shape == Shape(in, AdminCreateFields, << >>)
              obj == AdminFromCreate(shape, clock)
          IN IF AdminDDL(admins, obj, 0) # "ok"
             THEN /\ UNCHANGED <<admins, clock>>
                  /\ last' = Result("CreateAdmin", 0, in, AdminDDL(admins, obj, 0))
             ELSE /\ Len(admins) < MaxRows
                  /\ clock' = clock + 1
                  /\ admins' = Insert(admins, obj)
                  /\ last' = Result("CreateAdmin", Len(admins) + 1, in, "ok")

UpdateAdmin(id, in) ==
  /\ id \in Ids(admins)
  /\ UNCHANGED <<students, events, participants, schedules, slots, clock>>
  /\ IF ~ValidAdminUpdate(in)
     THEN /\ last' = Result("UpdateAdmin", id, in, "ValidationError")
          /\ admins' = admins
     ELSE LET row == ApplyUpdate(admins[id], Shape(in, AdminUpdateFields, << >>))
          IN IF AdminDDL(admins, row, id) # "ok"
             THEN /\ admins' = admins
                  /\ last' = Result("UpdateAdmin", id, in, AdminDDL(admins, row, id))
             ELSE /\ admins' = [admins EXCEPT ![id] = row]
                  /\ last' = Result("UpdateAdmin", id, in, "ok")

(* ------------------------------ Student ------------------------------- *)
\* mutation: a fifth member in the enum
StudentCategoryWithKids ==
  {"Sub Junior", "Junior", "Senior", "Super Senior", "Kids"}

StudentCategory == {"Sub Junior", "Junior", "Senior", "Super Senior"}

StudentColumns == {"id", "name", "class_name", "category", "is_active", "created_at"}

StudentNotNull == {"name", "class_name", "category", "is_active", "created_at"}

StudentDefaults(now) ==
  [category |-> "Sub Junior", is_active |-> TRUE, created_at |-> now]

StudentCreateFields == {"name", "class_name", "category"}

StudentCreateDefaults == [category |-> "Sub Junior"]

StudentUpdateFields == {"name", "class_name", "category", "is_active"}

\* a field typed StudentCategory accepts the four enum values only
CategoryOK(r) == Has(r, "category") => r.category \in StudentCategory

ValidStudentCreate(in) ==
  /\ Required(in, {"name", "class_name"})
  /\ MaxLenOK(in, "name", 100)
  /\ MaxLenOK(in, "class_name", 50)
  /\ CategoryOK(in)

ValidStudentUpdate(in) ==
  /\ MaxLenOK(in, "name", 100)
  /\ MaxLenOK(in, "class_name", 50)
  /\ CategoryOK(in)

\* the DDL of table students: category is an enum column
StudentTypes(row) ==
  /\ MaxLenOK(row, "name", 100)
  /\ MaxLenOK(row, "class_name", 50)
  /\ CategoryOK(row)

StudentDDL(row) == Commit(StudentTypes(row), Required(row, StudentNotNull))

StudentCreateInputs ==
  { [name |-> "Asha", class_name |-> "5A"],
    [name |-> "Bilal", class_name |-> "8B", category |-> "Junior"],
    [name |-> "Chitra", class_name |-> "10C", category |-> "Senior"],
    [name |-> "Dev", class_name |-> "12D", category |-> "Super Senior"],
    [name |-> "Esa", class_name |-> "1E", category |-> "Kids"],
    [name |-> "Fay", class_name |-> "2F", category |-> "junior"],
    [name |-> "Gul", class_name |-> Rep("c", 51)],
    [name |-> "Hari"] }

\* keyword data given to the table class Student directly
StudentTableInputs ==
  { [name |-> "Ila", class_name |-> "3A"],
    [name |-> "Jon", class_name |-> "4A", category |-> "Senior"],
    [name |-> "Kim", class_name |-> "6A", category |-> "Kids"],
    [name |-> "Lee", class_name |-> "7A", category |-> ""] }

StudentUpdateInputs ==
  { [category |-> "Senior"],
    [category |-> "Kids"],
    [name |-> "Renamed", is_active |-> FALSE],
    [class_name |-> "9Z", id |-> 9, created_at |-> 99],
    << >> }

\* session.add(obj); session.commit() for table students
InsertStudent(op, in, obj) ==
  IF StudentDDL(obj) # "ok"
  THEN /\ UNCHANGED <<students, clock>>
       /\ last' = Result(op, 0, in, StudentDDL(obj))
  ELSE /\ Len(students) < MaxRows
       /\ clock' = clock + 1
       /\ students' = Insert(students, obj)
       /\ last' = Result(op, Len(students) + 1, in, "ok")

CreateStudent(in) ==
  /\ UNCHANGED <<admins, events, participants, schedules, slots>>
  /\ IF ~ValidStudentCreate(in)
     THEN /\ last' = Result("CreateStudent", 0, in, "ValidationError")
          /\ UNCHANGED <<students, clock>>
     ELSE InsertStudent("CreateStudent", in,
                TableObject(Shape(in, StudentCreateFields, StudentCreateDefaults),
                            StudentColumns, StudentDefaults(clock)))

\* Student(**data) followed by add and commit: no input shape in between
PersistStudent(data) ==
  /\ UNCHANGED <<admins, events, participants, schedules, slots>>
  /\ InsertStudent("PersistStudent", data,
        TableObject(data, StudentColumns \ {"id"}, StudentDefaults(clock)))

UpdateStudent(id, in) ==
  /\ id \in Ids(students)
  /\ UNCHANGED <<admins, events, participants, schedules, slots, clock>>
  /\ IF ~ValidStudentUpdate(in)
     THEN /\ last' = Result("UpdateStudent", id, in, "ValidationError")
          /\ students' = students
     ELSE LET row == ApplyUpdate(students[id], Shape(in, StudentUpdateFields, << >>))
          IN IF StudentDDL(row) # "ok"
             THEN /\ students' = students
                  /\ last' = Result("UpdateStudent", id, in, StudentDDL(row))
             ELSE /\ students' = [students EXCEPT ![id] = row]
                  /\ last' = Result("UpdateStudent", id, in, "ok")

(* ------------------------------- Event -------------------------------- *)
EventColumns ==
  {"id", "name", "category", "max_participants", "priority",
   "average_time_minutes", "description", "is_active", "created_at"}

EventNotNull ==
  {"name", "category", "priority", "average_time_minutes", "description",
   "is_active", "created_at"}

EventDefaults(now) ==
  [priority |-> 1, average_time_minutes |-> 30, description |-> "",
   is_active |-> TRUE, created_at |-> now]

EventCreateFields ==
  {"name", "category", "max_participants", "priority", "average_time_minutes",
   "description"}

\* mutation: another default duration
EventCreateDefaultsHour ==
  [priority |-> 1, average_time_minutes |-> 60, description |-> ""]

EventCreateDefaults ==
  [priority |-> 1, average_time_minutes |-> 30, description |-> ""]

EventUpdateFields ==
  {"name", "category", "max_participants", "priority", "average_time_minutes",
   "description", "is_active"}

PriorityMin == 1

PriorityMax == 10

AverageTimeMin == 1

MaxParticipantsMin == 1

ValidEventCreate(in) ==
  /\ Required(in, {"name", "category"})
  /\ MaxLenOK(in, "name", 200)
  /\ MaxLenOK(in, "category", 100)
  /\ GeOK(in, "max_participants", MaxParticipantsMin)
  /\ GeOK(in, "priority", PriorityMin)
  /\ LeOK(in, "priority", PriorityMax)
  /\ GeOK(in, "average_time_minutes", AverageTimeMin)
  /\ MaxLenOK(in, "description", 1000)

ValidEventUpdate(in) ==
  /\ MaxLenOK(in, "name", 200)
  /\ MaxLenOK(in, "category", 100)
  /\ GeOK(in, "max_participants", MaxParticipantsMin)
  /\ GeOK(in, "priority", PriorityMin)
  /\ LeOK(in, "priority", PriorityMax)
  /\ GeOK(in, "average_time_minutes", AverageTimeMin)
  /\ MaxLenOK(in, "description", 1000)

\* the DDL of table events: ge= and le= are not part of it
EventTypes(row) ==
  /\ MaxLenOK(row, "name", 200)
  /\ MaxLenOK(row, "category", 100)
  /\ MaxLenOK(row, "description", 1000)

EventDDL(row) == Commit(EventTypes(row), Required(row, EventNotNull))

EventCreateInputs ==
  { [name |-> "Elocution English", category |-> "Elocution", priority |-> 5,
     average_time_minutes |-> 20],
    [name |-> "Mappila Song", category |-> "Song"],
    [name |-> "Song Arabic", category |-> "Song", max_participants |-> 1,
     priority |-> 10, average_time_minutes |-> 1, description |-> "solo"],
    [name |-> "Quiz", category |-> "Quiz", priority |-> 0],
    [name |-> "Quiz", category |-> "Quiz", priority |-> 11],
    [name |-> "Quiz", category |-> "Quiz", average_time_minutes |-> 0],
    [name |-> "Quiz", category |-> "Quiz", max_participants |-> 0],
    [name |-> Rep("n", 201), category |-> "Quiz"],
    [name |-> "Quiz", category |-> "Quiz", is_active |-> FALSE, id |-> 9],
    [name |-> "Quiz"] }

\* keyword data given to the table class Event directly
EventTableInputs ==
  { [name |-> "Debate", category |-> "Speech", priority |-> 3],
    [name |-> "Debate", category |-> "Speech", priority |-> 0],
    [name |-> "Debate", category |-> "Speech", priority |-> 11,
     average_time_minutes |-> 0],
    [name |-> Rep("n", 201), category |-> "Speech"] }

EventUpdateInputs ==
  { [priority |-> 7, max_participants |-> 4],
    [priority |-> 0],
    [priority |-> 11],
    [average_time_minutes |-> 0],
    [name |-> "Renamed", is_active |-> FALSE, id |-> 9, created_at |-> 99],
    << >> }

\* session.add(obj); session.commit() for table events
InsertEvent(op, in, obj) ==
  IF EventDDL(obj) # "ok"
  THEN /\ UNCHANGED <<events, clock>>
       /\ last' = Result(op, 0, in, EventDDL(obj))
  ELSE /\ Len(events) < MaxRows
       /\ clock' = clock + 1
       /\ events' = Insert(events, obj)
       /\ last' = Result(op, Len(events) + 1, in, "ok")

CreateEvent(in) ==
  /\ UNCHANGED <<admins, students, participants, schedules, slots>>
  /\ IF ~ValidEventCreate(in)
     THEN /\ last' = Result("CreateEvent", 0, in, "ValidationError")
          /\ UNCHANGED <<events, clock>>
     ELSE InsertEvent("CreateEvent", in,
                TableObject(Shape(in, EventCreateFields, EventCreateDefaults),
                            EventColumns, EventDefaults(clock)))

\* Event(**data) followed by add and commit: no input shape in between
PersistEvent(data) ==
  /\ UNCHANGED <<admins, students, participants, schedules, slots>>
  /\ InsertEvent("PersistEvent", data,
        TableObject(data, EventColumns \ {"id"}, EventDefaults(clock)))

UpdateEvent(id, in) ==
  /\ id \in Ids(events)
  /\ UNCHANGED <<admins, students, participants, schedules, slots, clock>>
  /\ IF ~ValidEventUpdate(in)
     THEN /\ last' = Result("UpdateEvent", id, in, "ValidationError")
          /\ events' = events
     ELSE LET row == ApplyUpdate(events[id], Shape(in, EventUpdateFields, << >>))
          IN IF EventDDL(row) # "ok"
             THEN /\ events' = events
                  /\ last' = Result("UpdateEvent", id, in, EventDDL(row))
             ELSE /\ events' = [events EXCEPT ![id] = row]
                  /\ last' = Result("UpdateEvent", id, in, "ok")

(* -------------------------- EventParticipant -------------------------- *)
ParticipantColumns ==
  {"id", "student_id", "event_id", "assigned_by_admin_id", "assigned_at"}

ParticipantNotNull ==
  {"student_id", "event_id", "assigned_by_admin_id", "assigned_at"}

ParticipantDefaults(now) == [assigned_at |-> now]

ParticipantCreateFields == {"student_id", "event_id", "assigned_by_admin_id"}

ValidParticipantCreate(in) ==
  Required(in, {"student_id", "event_id", "assigned_by_admin_id"})

\* __table_args__ of event_participants: extend_existing only
ParticipantTableArgs(table, row) == TRUE

\* mutation: student_id declared without its foreign key
ParticipantDDLNoStudentKey(table, row) ==
  Commit(TRUE,
         /\ Required(row, ParticipantNotNull)
         /\ row.event_id \in Ids(events)
         /\ row.assigned_by_admin_id \in Ids(admins))

\* the DDL of table event_participants: three foreign keys
ParticipantDDL(table, row) ==
  Commit(TRUE,
         /\ Required(row, ParticipantNotNull)
         /\ row.student_id \in Ids(students)
         /\ row.event_id \in Ids(events)
         /\ row.assigned_by_admin_id \in Ids(admins)
         /\ ParticipantTableArgs(table, row))

\* ids 1 and 2 may name rows, id 9 names none
ParticipantCreateInputs ==
  { in \in [ParticipantCreateFields -> {1, 2, 9}] :
      in.event_id # 2 /\ in.assigned_by_admin_id # 2 }
  \cup { [student_id |-> 1, event_id |-> 1] }

CreateEventParticipant(in) ==
  /\ UNCHANGED <<admins, students, events, schedules, slots>>
  /\ IF ~ValidParticipantCreate(in)
     THEN /\ last' = Result("CreateEventParticipant", 0, in, "ValidationError")
          /\ UNCHANGED <<participants, clock>>
     ELSE LET obj == TableObject(Shape(in, ParticipantCreateFields, << >>),
                                 ParticipantColumns, ParticipantDefaults(clock))
          IN IF ParticipantDDL(participants, obj) # "ok"
             THEN /\ UNCHANGED <<participants, clock>>
                  /\ last' = Result("CreateEventParticipant", 0, in,
                                    ParticipantDDL(participants, obj))
             ELSE /\ Len(participants) < MaxRows
                  /\ clock' = clock + 1
                  /\ participants' = Insert(participants, obj)
                  /\ last' = Result("CreateEventParticipant",
                                    Len(participants) + 1, in, "ok")

(* ------------------------------ Schedule ------------------------------ *)
ScheduleColumns ==
  {"id", "name", "description", "event_date", "is_generated", "is_finalized",
   "created_by_admin_id", "created_at", "updated_at"}

ScheduleNotNull == ScheduleColumns \ {"id"}

ScheduleDefaults(now) ==
  [description |-> "", is_generated |-> FALSE, is_finalized |-> FALSE,
   created_at |-> now, updated_at |-> now]

ScheduleCreateFields == {"name", "description", "event_date", "created_by_admin_id"}

ScheduleCreateDefaults == [description |-> ""]

ValidScheduleCreate(in) ==
  /\ Required(in, {"name", "event_date", "created_by_admin_id"})
  /\ MaxLenOK(in, "name", 200)
  /\ MaxLenOK(in, "description", 1000)

ScheduleDDL(row) ==
  Commit(MaxLenOK(row, "name", 200) /\ MaxLenOK(row, "description", 1000),
         /\ Required(row, ScheduleNotNull)
         /\ row.created_by_admin_id \in Ids(admins))

ScheduleCreateInputs ==
  { [name |-> "Main Event Schedule", event_date |-> 2, created_by_admin_id |-> 1,
     description |-> "main", is_finalized |-> TRUE],
    [name |-> "Orphan", event_date |-> 1, created_by_admin_id |-> 7],
    [name |-> Rep("n", 201), event_date |-> 1, created_by_admin_id |-> 1] }

CreateSchedule(in) ==
  /\ UNCHANGED <<admins, students, events, participants, slots>>
  /\ IF ~ValidScheduleCreate(in)
     THEN /\ last' = Result("CreateSchedule", 0, in, "ValidationError")
          /\ UNCHANGED <<schedules, clock>>
     ELSE LET obj == TableObject(Shape(in, ScheduleCreateFields, ScheduleCreateDefaults),
                                 ScheduleColumns, ScheduleDefaults(clock))
          IN IF ScheduleDDL(obj) # "ok"
             THEN /\ UNCHANGED <<schedules, clock>>
                  /\ last' = Result("CreateSchedule", 0, in, ScheduleDDL(obj))
             ELSE /\ Len(schedules) < MaxRows
                  /\ clock' = clock + 1
                  /\ schedules' = Insert(schedules, obj)
                  /\ last' = Result("CreateSchedule", Len(schedules) + 1, in, "ok")

\* locking a schedule for printing: the flag is set on the row
FinalizeSchedule(id) ==
  /\ id \in Ids(schedules)
  /\ ~schedules[id].is_finalized
  /\ schedules' = [schedules EXCEPT ![id].is_finalized = TRUE]
  /\ last' = Result("FinalizeSchedule", id, << >>, "ok")
  /\ UNCHANGED <<admins, students, events, participants, slots, clock>>

(* ---------------------------- ScheduleSlot ---------------------------- *)
SlotColumns ==
  {"id", "schedule_id", "event_id", "start_time", "end_time", "venue", "notes",
   "order_index", "created_at"}

SlotNotNull == SlotColumns \ {"id"}

SlotDefaults(now) ==
  [venue |-> "", notes |-> "", order_index |-> 0, created_at |-> now]

SlotCreateFields ==
  {"schedule_id", "event_id", "start_time", "end_time", "venue", "notes",
   "order_index"}

SlotCreateDefaults == [venue |-> "", notes |-> "", order_index |-> 0]

SlotUpdateFields == {"start_time", "end_time", "venue", "notes", "order_index"}

OrderIndexMin == 0

ValidSlotCreate(in) ==
  /\ Required(in, {"schedule_id", "event_id", "start_time", "end_time"})
  /\ MaxLenOK(in, "venue", 200)
  /\ MaxLenOK(in, "notes", 500)
  /\ GeOK(in, "order_index", OrderIndexMin)

ValidSlotUpdate(in) ==
  /\ MaxLenOK(in, "venue", 200)
  /\ MaxLenOK(in, "notes", 500)
  /\ GeOK(in, "order_index", OrderIndexMin)

\* the DDL of table schedule_slots: ge=0 is not part of it
SlotDDL(row) ==
  Commit(MaxLenOK(row, "venue", 200) /\ MaxLenOK(row, "notes", 500),
         /\ Required(row, SlotNotNull)
         /\ row.schedule_id \in Ids(schedules)
         /\ row.event_id \in Ids(events))

\* times of day are minutes after midnight
SlotCreateInputs ==
  { [schedule_id |-> 1, event_id |-> 1, start_time |-> 540, end_time |-> 560],
    [schedule_id |-> 1, event_id |-> 1, start_time |-> 600, end_time |-> 630,
     venue |-> "Hall", order_index |-> 3],
    [schedule_id |-> 1, event_id |-> 1, start_time |-> 600, end_time |-> 630,
     order_index |-> -1],
    [schedule_id |-> 5, event_id |-> 1, start_time |-> 600, end_time |-> 630],
    [schedule_id |-> 1, event_id |-> 1, start_time |-> 600, end_time |-> 630,
     notes |-> Rep("n", 501)] }

\* keyword data given to the table class ScheduleSlot directly
SlotTableInputs ==
  { [schedule_id |-> 1, event_id |-> 1, start_time |-> 700, end_time |-> 720],
    [schedule_id |-> 1, event_id |-> 1, start_time |-> 700, end_time |-> 720,
     order_index |-> -1],
    [schedule_id |-> 1, event_id |-> 1, start_time |-> 700] }

SlotUpdateInputs ==
  { [order_index |-> 2],
    [order_index |-> -1],
    [venue |-> Rep("v", 201)],
    << >> }

\* session.add(obj); session.commit() for table schedule_slots
InsertSlot(op, in, obj) ==
  IF SlotDDL(obj) # "ok"
  THEN /\ UNCHANGED <<slots, clock>>
       /\ last' = Result(op, 0, in, SlotDDL(obj))
  ELSE /\ Len(slots) < MaxRows
       /\ clock' = clock + 1
       /\ slots' = Insert(slots, obj)
       /\ last' = Result(op, Len(slots) + 1, in, "ok")

CreateScheduleSlot(in) ==
  /\ UNCHANGED <<admins, students, events, participants, schedules>>
  /\ IF ~ValidSlotCreate(in)
     THEN /\ last' = Result("CreateScheduleSlot", 0, in, "ValidationError")
          /\ UNCHANGED <<slots, clock>>
     ELSE InsertSlot("CreateScheduleSlot", in,
                TableObject(Shape(in, SlotCreateFields, SlotCreateDefaults),
                            SlotColumns, SlotDefaults(clock)))

\* ScheduleSlot(**data) followed by add and commit: no input shape in between
PersistScheduleSlot(data) ==
  /\ UNCHANGED <<admins, students, events, participants, schedules>>
  /\ InsertSlot("PersistScheduleSlot", data,
        TableObject(data, SlotColumns \ {"id"}, SlotDefaults(clock)))

UpdateScheduleSlot(id, in) ==
  /\ id \in Ids(slots)
  /\ UNCHANGED <<admins, students, events, participants, schedules, clock>>
  /\ IF ~ValidSlotUpdate(in)
     THEN /\ last' = Result("UpdateScheduleSlot", id, in, "ValidationError")
          /\ slots' = slots
     ELSE LET row == ApplyUpdate(slots[id], Shape(in, SlotUpdateFields, << >>))
          IN IF SlotDDL(row) # "ok"
             THEN /\ slots' = slots
                  /\ last' = Result("UpdateScheduleSlot", id, in, SlotDDL(row))
             ELSE /\ slots' = [slots EXCEPT ![id] = row]
                  /\ last' = Result("UpdateScheduleSlot", id, in, "ok")

(* --------------------------- specifications --------------------------- *)
\* rows other tables refer to
SeedAdminInputs ==
  { [username |-> "root", password |-> "abcdef", name |-> "Root", email |-> "root@x"] }

SeedStudentInputs ==
  { [name |-> "Asha", class_name |-> "5A"] }

SeedEventInputs ==
  { [name |-> "Mappila Song", category |-> "Song"] }

SeedScheduleInputs ==
  { [name |-> "Day 1 Schedule", event_date |-> 1, created_by_admin_id |-> 1] }

SeedSlotInputs ==
  { [schedule_id |-> 1, event_id |-> 1, start_time |-> 540, end_time |-> 560] }

Init ==
  /\ admins = << >>
  /\ students = << >>
  /\ events = << >>
  /\ participants = << >>
  /\ schedules = << >>
  /\ slots = << >>
  /\ clock = 0
  /\ last = Result("init", 0, << >>, "ok")

AdminNext ==
  \/ \E in \in AdminCreateInputs : CreateAdmin(in)
  \/ \E id \in 1..MaxRows, in \in AdminUpdateInputs : UpdateAdmin(id, in)

AdminSpec == Init /\ [][AdminNext]_vars

StudentNext ==
  \/ \E in \in StudentCreateInputs : CreateStudent(in)
  \/ \E data \in StudentTableInputs : PersistStudent(data)
  \/ \E id \in 1..MaxRows, in \in StudentUpdateInputs : UpdateStudent(id, in)

StudentSpec == Init /\ [][StudentNext]_vars

EventNext ==
  \/ \E in \in EventCreateInputs : CreateEvent(in)
  \/ \E data \in EventTableInputs : PersistEvent(data)
  \/ \E id \in 1..MaxRows, in \in EventUpdateInputs : UpdateEvent(id, in)

EventSpec == Init /\ [][EventNext]_vars

\* one admin and one event, up to MaxRows students, and assignments
ParticipantNext ==
  \/ \E in \in SeedAdminInputs : CreateAdmin(in)
  \/ \E in \in SeedStudentInputs : CreateStudent(in)
  \/ \E in \in SeedEventInputs : Len(events) = 0 /\ CreateEvent(in)
  \/ \E in \in ParticipantCreateInputs : CreateEventParticipant(in)

ParticipantSpec == Init /\ [][ParticipantNext]_vars

\* one admin, one event, one schedule and up to MaxRows slots of it
ScheduleNext ==
  \/ \E in \in SeedAdminInputs : CreateAdmin(in)
  \/ \E in \in SeedEventInputs : Len(events) = 0 /\ CreateEvent(in)
  \/ \E in \in ScheduleCreateInputs : Len(schedules) = 0 /\ CreateSchedule(in)
  \/ \E id \in 1..MaxRows : FinalizeSchedule(id)
  \/ \E in \in SlotCreateInputs : CreateScheduleSlot(in)
  \/ \E data \in SlotTableInputs : PersistScheduleSlot(data)
  \/ \E id \in 1..MaxRows, in \in SlotUpdateInputs : UpdateScheduleSlot(id, in)

ScheduleSpec == Init /\ [][ScheduleNext]_vars

\* updates that pass validation and carry keys the shape does not declare
FrameAdminInputs ==
  { [is_active |-> FALSE, username |-> "hacked", password_hash |-> "x", id |-> 9,
     created_at |-> 99] }

FrameStudentInputs ==
  { [category |-> "Senior"],
    [class_name |-> "9Z", id |-> 9, created_at |-> 99] }

FrameEventInputs ==
  { [priority |-> 7, max_participants |-> 4, id |-> 9, created_at |-> 99] }

FrameSlotInputs ==
  { [order_index |-> 2, schedule_id |-> 2, event_id |-> 2, id |-> 9,
     created_at |-> 99] }

\* one admin, event, schedule and slot, up to MaxRows students, and the four
\* kinds of update on them
UpdateNext ==
  \/ \E in \in SeedAdminInputs : CreateAdmin(in)
  \/ \E in \in SeedStudentInputs : CreateStudent(in)
  \/ \E in \in SeedEventInputs : Len(events) = 0 /\ CreateEvent(in)
  \/ \E in \in SeedScheduleInputs : Len(schedules) = 0 /\ CreateSchedule(in)
  \/ \E in \in SeedSlotInputs : Len(slots) = 0 /\ CreateScheduleSlot(in)
  \/ \E id \in 1..MaxRows, in \in FrameAdminInputs : UpdateAdmin(id, in)
  \/ \E id \in 1..MaxRows, in \in FrameStudentInputs : UpdateStudent(id, in)
  \/ \E id \in 1..MaxRows, in \in FrameEventInputs : UpdateEvent(id, in)
  \/ \E id \in 1..MaxRows, in \in FrameSlotInputs : UpdateScheduleSlot(id, in)

UpdateSpec == Init /\ [][UpdateNext]_vars

(* ------------------------------- claims ------------------------------- *)

\* C1: every stored Event has 1 <= priority <= 10 and
\* average_time_minutes >= 1, whichever way it was constructed or persisted.
C1_EventBounds ==
  \A i \in Ids(events) :
    /\ events[i].priority >= 1
    /\ events[i].priority <= 10
    /\ events[i].average_time_minutes >= 1

\* C2: every stored Student has one of the four categories; a Student,
\* StudentCreate or StudentUpdate given another category is rejected; a
\* Student created without a category gets Sub Junior.
C2_StudentCategory ==
  LET four == {"Sub Junior", "Junior", "Senior", "Super Senior"}
      ops == {"CreateStudent", "PersistStudent", "UpdateStudent"}
  IN /\ \A i \in Ids(students) : students[i].category \in four
     /\ (/\ last.op \in ops
         /\ Has(last.in, "category")
         /\ last.in.category \notin four) => last.result # "ok"
     /\ (/\ last.op \in {"CreateStudent", "PersistStudent"}
         /\ last.result = "ok"
         /\ ~Has(last.in, "category")) => students[last.id].category = "Sub Junior"

C2_Witness ==
  /\ \E i \in Ids(students) :
       students[i].name = "Asha" /\ students[i].category = "Sub Junior"
  /\ last.op = "PersistStudent"
  /\ Has(last.in, "category")
  /\ last.in.category = "Kids"
  /\ last.result = "DataError"

\* C3: every stored EventParticipant names an existing Student and an
\* existing Event; a creation whose student_id or event_id matches no row
\* fails with an integrity (foreign-key) error and changes no table.
C3_ForeignKeys ==
  /\ [](\A i \in Ids(participants) :
          /\ participants[i].student_id \in Ids(students)
          /\ participants[i].event_id \in Ids(events))
  /\ [][(/\ last'.op = "CreateEventParticipant"
         /\ Has(last'.in, "student_id")
         /\ Has(last'.in, "event_id")
         /\ Has(last'.in, "assigned_by_admin_id")
         /\ \/ last'.in.student_id \notin Ids(students)
            \/ last'.in.event_id \notin Ids(events))
        => /\ last'.result = "IntegrityError"
           /\ UNCHANGED <<admins, students, events, participants, schedules, slots>>]_vars

C3_Witness ==
  /\ Len(participants) >= 1
  /\ last.op = "CreateEventParticipant"
  /\ last.result = "IntegrityError"
  /\ last.in.student_id \notin Ids(students)
  /\ last.in.event_id \in Ids(events)

\* C4: no two stored EventParticipant rows have the same
\* (student_id, event_id) pair.
C4_UniquePair ==
  \A i, j \in Ids(participants) :
    i # j => \/ participants[i].student_id # participants[j].student_id
             \/ participants[i].event_id # participants[j].event_id

\* C5: no two stored Admins share a username or an email; an AdminCreate that
\* validates but repeats the username or email of a stored Admin fails with
\* IntegrityError at the store and leaves the store unchanged.
C5_AdminUnique ==
  /\ [](\A i, j \in Ids(admins) :
          i # j => /\ admins[i].username # admins[j].username
                   /\ admins[i].email # admins[j].email)
  /\ [][(/\ last'.op = "CreateAdmin"
         /\ {"username", "password", "name", "email"} \subseteq DOMAIN last'.in
         /\ Len(last'.in.username) <= 50
         /\ Len(last'.in.password) >= 6
         /\ Len(last'.in.password) <= 100
         /\ Len(last'.in.name) <= 100
         /\ Len(last'.in.email) <= 255
         /\ \E i \in Ids(admins) :
              \/ admins[i].username = last'.in.username
              \/ admins[i].email = last'.in.email)
        => /\ last'.result = "IntegrityError"
           /\ UNCHANGED <<admins, students, events, participants, schedules, slots>>]_vars

C5_Witness ==
  /\ Len(admins) = 1
  /\ last.op = "CreateAdmin"
  /\ last.in.username # admins[1].username
  /\ last.in.email = admins[1].email
  /\ last.result = "IntegrityError"

\* C6: an AdminCreate whose password has fewer than 6 characters is rejected
\* with ValidationError and no Admin row is created from it; a password of 6
\* to 100 characters passes validation.
C6_PasswordLength ==
  /\ [][(/\ last'.op = "CreateAdmin"
         /\ Has(last'.in, "password")
         /\ Len(last'.in.password) < 6)
        => /\ last'.result = "ValidationError"
           /\ admins' = admins]_vars
  /\ []((/\ last.op = "CreateAdmin"
         /\ {"username", "password", "name", "email"} \subseteq DOMAIN last.in
         /\ Len(last.in.username) <= 50
         /\ Len(last.in.name) <= 100
         /\ Len(last.in.email) <= 255
         /\ Len(last.in.password) >= 6
         /\ Len(last.in.password) <= 100)
        => last.result # "ValidationError")

C6_Witness ==
  /\ Len(admins) >= 1
  /\ last.op = "CreateAdmin"
  /\ Has(last.in, "password")
  /\ last.in.password = "abcde"
  /\ last.result = "ValidationError"

\* C7: an EventCreate within its bounds is accepted, and the Event persisted
\* from it carries the given field values, is_active = TRUE, the id assigned
\* by the store and a created_at; omitted fields take priority = 1,
\* average_time_minutes = 30, description = "", max_participants = none.
C7_EventCreate ==
  LET in == last.in
      given == {"name", "category", "max_participants", "priority",
                "average_time_minutes", "description"}
      valid ==
        /\ {"name", "category"} \subseteq DOMAIN in
        /\ Len(in.name) <= 200
        /\ Len(in.category) <= 100
        /\ Has(in, "priority") => (in.priority >= 1 /\ in.priority <= 10)
        /\ Has(in, "average_time_minutes") => in.average_time_minutes >= 1
        /\ Has(in, "max_participants") => in.max_participants >= 1
        /\ Has(in, "description") => Len(in.description) <= 1000
  IN (last.op = "CreateEvent" /\ valid) =>
       /\ last.result = "ok"
       /\ last.id \in Ids(events)
       /\ LET e == events[last.id]
          IN /\ \A f \in given \cap DOMAIN in : Has(e, f) /\ e[f] = in[f]
             /\ e.is_active = TRUE
             /\ e.id = last.id
             /\ Has(e, "created_at")
             /\ ~Has(in, "priority") => e.priority = 1
             /\ ~Has(in, "average_time_minutes") => e.average_time_minutes = 30
             /\ ~Has(in, "description") => e.description = ""
             /\ ~Has(in, "max_participants") => ~Has(e, "max_participants")

C7_Witness ==
  /\ last.op = "CreateEvent"
  /\ last.result = "ok"
  /\ last.in.name = "Elocution English"
  /\ events[last.id].priority = 5
  /\ events[last.id].average_time_minutes = 20
  /\ events[last.id].description = ""

\* C8: every stored ScheduleSlot has order_index >= 0, whichever way it was
\* constructed or persisted.
C8_OrderIndex ==
  \A i \in Ids(slots) : slots[i].order_index >= 0

\* C9: an update changes only fields the caller provided: a field left unset
\* keeps its stored value, and id, created_at, username, password_hash,
\* schedule_id and event_id are never changed by an update; no row is added
\* or removed and no other table changes.
Frame(old, new) ==
  LET never == {"id", "created_at", "username", "password_hash",
                "schedule_id", "event_id"}
  IN /\ Len(new) = Len(old)
     /\ \A i \in Ids(old) :
          /\ \A f \in DOMAIN old[i] :
               (i # last'.id \/ f \notin DOMAIN last'.in \/ f \in never)
                 => (Has(new[i], f) /\ new[i][f] = old[i][f])
          /\ \A f \in DOMAIN new[i] \ DOMAIN old[i] :
               i = last'.id /\ f \in DOMAIN last'.in /\ f \notin never

C9_SparseUpdate ==
  [][/\ last'.op = "UpdateAdmin" =>
          /\ Frame(admins, admins')
          /\ UNCHANGED <<students, events, participants, schedules, slots>>
     /\ last'.op = "UpdateStudent" =>
          /\ Frame(students, students')
          /\ UNCHANGED <<admins, events, participants, schedules, slots>>
     /\ last'.op = "UpdateEvent" =>
          /\ Frame(events, events')
          /\ UNCHANGED <<admins, students, participants, schedules, slots>>
     /\ last'.op = "UpdateScheduleSlot" =>
          /\ Frame(slots, slots')
          /\ UNCHANGED <<admins, students, events, participants, schedules>>]_vars

C9_Witness ==
  /\ last.op = "UpdateAdmin"
  /\ last.result = "ok"
  /\ Has(last.in, "username")
  /\ last.in.username = "hacked"
  /\ admins[last.id].username = "root"
  /\ admins[last.id].is_active = FALSE

\* C10: a Schedule is created with is_finalized = FALSE, and once
\* is_finalized is TRUE no operation changes the Schedule or adds, updates or
\* removes one of its ScheduleSlots.
SlotsOf(table, s) == { table[i] : i \in { j \in Ids(table) : table[j].schedule_id = s } }

C10_FinalizedReadOnly ==
  /\ []((last.op = "CreateSchedule" /\ last.result = "ok")
          => ~schedules[last.id].is_finalized)
  /\ [][\A s \in Ids(schedules) :
          schedules[s].is_finalized =>
            /\ schedules'[s] = schedules[s]
            /\ SlotsOf(slots', s) = SlotsOf(slots, s)]_vars

====
